---- MODULE Spec2Model ----
(***************************************************************************)
(* Model of gcs_service.py: the Google Cloud Storage adapter for hero      *)
(* banner images.  The module-level handles _storage_client and _bucket    *)
(* are the program state; the storage provider is modelled by the remote   *)
(* bucket's existence and the set of object names it stores.  Strings are  *)
(* TLA+ strings, read character by character with SubSeq.                  *)
(***************************************************************************)
EXTENDS Integers, Sequences, FiniteSets, TLC

VARIABLES
    GCS_BUCKET_NAME,   \* configuration, read from the environment at import
    GCS_PROJECT_ID,    \* configuration, read from the environment at import
    storage_client,    \* the module global _storage_client
    bucket,            \* the module global _bucket
    remoteBucket,      \* provider: does the configured bucket exist
    objects,           \* provider: object names stored in the bucket
    gen,               \* number of client objects constructed so far
    last,              \* the last call: operation, argument, SDK calls, result
    initialized,       \* history: some init_gcs_client call has returned True
    input              \* the filename under test (specification SpecName)

vars == <<GCS_BUCKET_NAME, GCS_PROJECT_ID, storage_client, bucket, remoteBucket,
          objects, gen, last, initialized, input>>

---------------------------------------------------------------------------
(* Bounds *)

\* init_gcs_client constructs at most this many clients in a behaviour
MaxInits == 2

\* filenames are enumerated exhaustively up to this length
MaxLen == 5

---------------------------------------------------------------------------
(* Strings *)

Char(s, i) == SubSeq(s, i, i)

\* str.rfind, 1-based: the last position of character c in s, 0 when absent
rfind(s, c) ==
    LET hits == {i \in 1..Len(s) : Char(s, i) = c}
    IN IF hits = {} THEN 0 ELSE CHOOSE i \in hits : \A j \in hits : j <= i

UpperCase == "ABCDEFGHIJKLMNOPQRSTUVWXYZ"
LowerCase == "abcdefghijklmnopqrstuvwxyz"

\* the lowercase letter of every uppercase letter
LowerOf ==
    [c \in {Char(UpperCase, i) : i \in 1..Len(UpperCase)} |->
        Char(LowerCase, CHOOSE i \in 1..Len(UpperCase) : Char(UpperCase, i) = c)]

LowerChar(c) == IF c \in DOMAIN LowerOf THEN LowerOf[c] ELSE c

RECURSIVE lower(_)
\* str.lower
lower(s) == IF s = "" THEN "" ELSE LowerChar(Head(s)) \o lower(Tail(s))

\* os.path.splitext(p)[1]: the text from the last dot of the last path
\* component, provided a character other than a dot precedes it there
splitext_ext(p) ==
    LET sepIndex == rfind(p, "/")
        dotIndex == rfind(p, ".")
    IN IF /\ dotIndex > sepIndex
          /\ \E k \in (sepIndex + 1)..(dotIndex - 1) : Char(p, k) # "."
       THEN SubSeq(p, dotIndex, Len(p))
       ELSE ""

---------------------------------------------------------------------------
(* Object naming *)

HERO_IMAGES_FOLDER == "hero_images"

ALLOWED_EXTENSIONS == {".jpg", ".jpeg", ".png", ".webp"}

\* variant: the extension is compared without lowering its case
normalized_ext_case_kept(filename) ==
    LET ext == splitext_ext(filename)
    IN IF ext \notin ALLOWED_EXTENSIONS THEN ".jpg" ELSE ext

\* the extension upload_hero_image gives the object
normalized_ext(filename) ==
    LET ext == lower(splitext_ext(filename))
    IN IF ext \notin ALLOWED_EXTENSIONS THEN ".jpg" ELSE ext

HexDigits == "0123456789abcdef"

\* one byte as two lowercase hexadecimal digits, leading zero kept
hex_byte(b) == Char(HexDigits, (b \div 16) + 1) \o Char(HexDigits, (b % 16) + 1)

\* uuid.uuid4() on 16 random bytes: the version nibble of byte 7 is set to 4
\* and the two variant bits of byte 9 to binary 10
uuid4(random) ==
    [i \in 1..16 |->
        IF i = 7 THEN (random[i] % 16) + 64
        ELSE IF i = 9 THEN (random[i] % 64) + 128
        ELSE random[i]]

RECURSIVE hex_from(_, _)
hex_from(bytes, i) ==
    IF i > Len(bytes) THEN "" ELSE hex_byte(bytes[i]) \o hex_from(bytes, i + 1)

\* UUID.hex: the 128-bit value as 32 hexadecimal digits
uuid_hex(bytes) == hex_from(bytes, 1)

\* the object name of an upload of filename with the given random bytes
generated_object_name(filename, random) ==
    LET unique_name == uuid_hex(uuid4(random)) \o normalized_ext(filename)
    IN HERO_IMAGES_FOLDER \o "/" \o unique_name

---------------------------------------------------------------------------
(* URLs *)

\* variant: the bucket name is read from the bucket handle
get_public_url_from_handle(object_name) ==
    "https://storage.googleapis.com/" \o bucket.name \o "/" \o object_name

\* get_public_url
get_public_url(object_name) ==
    "https://storage.googleapis.com/" \o GCS_BUCKET_NAME \o "/" \o object_name

UrlSafeChars ==
    LET safe == "ABCDEFGHIJKLMNOPQRSTUVWXYZabcdefghijklmnopqrstuvwxyz0123456789_.-~/"
    IN {Char(safe, i) : i \in 1..Len(safe)}

\* percent-encoding of one character of an object name; "/" and "~" are kept
quote_char(c) ==
    IF c \in UrlSafeChars THEN c
    ELSE CASE c = " " -> "%20"
           [] c = "#" -> "%23"
           [] c = "%" -> "%25"
           [] c = "?" -> "%3F"

RECURSIVE quote(_)
quote(s) == IF s = "" THEN "" ELSE quote_char(Head(s)) \o quote(Tail(s))

\* variant: the virtual-hosted form of the URL
public_url_virtual_host(b, object_name) ==
    "https://" \o b.name \o ".storage.googleapis.com/" \o quote(object_name)

\* Blob.public_url of the blob object_name of bucket handle b
public_url(b, object_name) ==
    "https://storage.googleapis.com" \o "/" \o b.name \o "/" \o quote(object_name)

---------------------------------------------------------------------------
(* Handles, results and exceptions *)

\* Python's None, as a handle
None == [kind |-> "None", id |-> 0, name |-> "", project |-> ""]

\* storage.Client(project = ...)
Client(id, project) ==
    [kind |-> "Client", id |-> id, name |-> "", project |-> project]

\* client.bucket(name)
Bucket(client, name) ==
    [kind |-> "Bucket", id |-> client.id, name |-> name,
     project |-> client.project]

\* truth value of a handle: no handle class defines __bool__ or __len__
truthy(h) == h.kind # "None"

RetBool(b) == [kind |-> "bool", ok |-> b, name |-> "", url |-> ""]
RetTriple(b, n, u) == [kind |-> "triple", ok |-> b, name |-> n, url |-> u]
RetStr(u) == [kind |-> "str", ok |-> TRUE, name |-> "", url |-> u]
\* the call ends by propagating exception exc to its caller
Raised(exc) == [kind |-> "raise", ok |-> FALSE, name |-> exc, url |-> ""]

SdkCall(fn, out) == [fn |-> fn, out |-> out]

Call(op, arg, calls, ret) == [op |-> op, arg |-> arg, calls |-> calls, ret |-> ret]

\* isinstance(exc, cls): NotFound is a subclass of Exception
IsInstance(exc, cls) == cls = "Exception" \/ cls = exc

\* a try statement's except clauses, tried in order; with no matching clause
\* the exception propagates
dispatch(handlers, exc) ==
    LET hits == {i \in 1..Len(handlers) : IsInstance(exc, handlers[i].type)}
    IN IF hits = {} THEN Raised(exc)
       ELSE handlers[CHOOSE i \in hits : \A j \in hits : i <= j].ret

init_handlers == <<[type |-> "Exception", ret |-> RetBool(FALSE)]>>

upload_handlers == <<[type |-> "Exception", ret |-> RetTriple(FALSE, "", "")]>>

\* variant: the general clause comes first and shadows the NotFound clause
delete_handlers_generic_first ==
    <<[type |-> "Exception", ret |-> RetBool(FALSE)],
      [type |-> "NotFound", ret |-> RetBool(TRUE)]>>

\* variant: the general clause is missing
delete_handlers_not_found_only ==
    <<[type |-> "NotFound", ret |-> RetBool(TRUE)]>>

delete_handlers ==
    <<[type |-> "NotFound", ret |-> RetBool(TRUE)],
      [type |-> "Exception", ret |-> RetBool(FALSE)]>>

---------------------------------------------------------------------------
(* init_gcs_client *)

\* variant: the bucket name is not checked
bucket_name_unchecked == FALSE

\* not GCS_BUCKET_NAME
bucket_name_missing == GCS_BUCKET_NAME = ""

\* the project argument of storage.Client
client_project == IF GCS_PROJECT_ID # "" THEN GCS_PROJECT_ID ELSE "None"

\* variant: the result of the existence check is ignored
init_result_unverified(exists_out) ==
    IF exists_out = "Error" THEN dispatch(init_handlers, "Error")
    ELSE RetBool(TRUE)

\* the end of the try block given what _bucket.exists() did
init_result(exists_out) ==
    IF exists_out = "Error" THEN dispatch(init_handlers, "Error")
    ELSE IF exists_out # "True" THEN RetBool(FALSE)
    ELSE RetBool(TRUE)

\* init_gcs_client(); the faults say which SDK calls raise
init_gcs_client(client_fault, bucket_fault, exists_fault) ==
    /\ IF bucket_name_missing
       THEN /\ last' = Call("init", "", <<>>, RetBool(FALSE))
            /\ UNCHANGED <<storage_client, bucket, gen>>
       ELSE /\ gen < MaxInits
            /\ IF client_fault
               THEN /\ last' = Call("init", "", <<SdkCall("Client", "Error")>>,
                                    dispatch(init_handlers, "Error"))
                    /\ UNCHANGED <<storage_client, bucket, gen>>
               ELSE LET client == Client(gen + 1, client_project)
                        exists_out == IF exists_fault THEN "Error"
                                      ELSE IF remoteBucket THEN "True"
                                      ELSE "False"
                    IN /\ gen' = gen + 1
                       /\ storage_client' = client
                       /\ IF bucket_fault
                          THEN /\ last' = Call("init", "",
                                               <<SdkCall("Client", "ok"),
                                                 SdkCall("bucket", "Error")>>,
                                               dispatch(init_handlers, "Error"))
                               /\ UNCHANGED bucket
                          ELSE /\ bucket' = Bucket(client, GCS_BUCKET_NAME)
                               /\ last' = Call("init", "",
                                               <<SdkCall("Client", "ok"),
                                                 SdkCall("bucket", "ok"),
                                                 SdkCall("exists", exists_out)>>,
                                               init_result(exists_out))
    /\ initialized' = (initialized \/ (last'.ret.kind = "bool" /\ last'.ret.ok))
    /\ UNCHANGED <<GCS_BUCKET_NAME, GCS_PROJECT_ID, remoteBucket, objects, input>>

---------------------------------------------------------------------------
(* upload_hero_image *)

\* upload_hero_image has no global statement: it assigns neither handle
upload_globals == UNCHANGED <<storage_client, bucket>>

\* upload_hero_image(file_data, filename, content_type); random is what
\* uuid4 draws and fault says whether the provider's write raises an error
\* of its own
upload_hero_image(filename, random, fault) ==
    /\ IF ~truthy(bucket)
       THEN /\ last' = Call("upload", filename, <<>>, RetTriple(FALSE, "", ""))
            /\ UNCHANGED objects
       ELSE LET object_name == generated_object_name(filename, random)
                out == IF fault THEN "Error"
                       ELSE IF ~remoteBucket THEN "NotFound"
                       ELSE "ok"
            IN IF out = "ok"
               THEN /\ objects' = objects \cup {object_name}
                    /\ last' = Call("upload", filename,
                                    <<SdkCall("upload_from_string", "ok")>>,
                                    RetTriple(TRUE, object_name,
                                              public_url(bucket, object_name)))
               ELSE /\ last' = Call("upload", filename,
                                    <<SdkCall("upload_from_string", out)>>,
                                    dispatch(upload_handlers, out))
                    /\ UNCHANGED objects
    /\ upload_globals
    /\ UNCHANGED <<GCS_BUCKET_NAME, GCS_PROJECT_ID, remoteBucket, gen,
                   initialized, input>>

---------------------------------------------------------------------------
(* delete_hero_image *)

\* variant: the bucket handle is dropped
delete_globals_reset == bucket' = None /\ UNCHANGED storage_client

\* delete_hero_image has no global statement: it assigns neither handle
delete_globals == UNCHANGED <<storage_client, bucket>>

\* delete_hero_image(object_name); fault says whether the provider's delete
\* raises an error other than NotFound
delete_hero_image(object_name, fault) ==
    /\ IF ~truthy(bucket)
       THEN /\ last' = Call("delete", object_name, <<>>, RetBool(FALSE))
            /\ UNCHANGED objects
       ELSE LET out == IF fault THEN "Error"
                       ELSE IF ~remoteBucket \/ object_name \notin objects
                            THEN "NotFound"
                       ELSE "ok"
            IN IF out = "ok"
               THEN /\ objects' = objects \ {object_name}
                    /\ last' = Call("delete", object_name,
                                    <<SdkCall("delete", "ok")>>, RetBool(TRUE))
               ELSE /\ last' = Call("delete", object_name,
                                    <<SdkCall("delete", out)>>,
                                    dispatch(delete_handlers, out))
                    /\ UNCHANGED objects
    /\ delete_globals
    /\ UNCHANGED <<GCS_BUCKET_NAME, GCS_PROJECT_ID, remoteBucket, gen,
                   initialized, input>>

---------------------------------------------------------------------------
(* get_public_url *)

GetPublicUrl(object_name) ==
    /\ last' = Call("url", object_name, <<>>, RetStr(get_public_url(object_name)))
    /\ UNCHANGED <<GCS_BUCKET_NAME, GCS_PROJECT_ID, storage_client, bucket,
                   remoteBucket, objects, gen, initialized, input>>

---------------------------------------------------------------------------
(* The adapter and its callers *)

BucketNames == {"", "my-bucket"}
ProjectIds == {"", "proj"}

\* what os.urandom gives uuid4
RandomSamples == {[i \in 1..16 |-> 0], [i \in 1..16 |-> 171]}

SampleFilenames == {"photo.PNG", "doc.gif", "noext"}

\* object names callers ask about that no upload produced
ForeignNames == {"hero_images/abc.jpg", "a b#%?"}

\* the object names callers pass: those uploads can return, stored or not,
\* and the foreign ones
CallerNames ==
    {generated_object_name(f, r) : f \in SampleFilenames, r \in RandomSamples}
        \cup ForeignNames

Init ==
    /\ GCS_BUCKET_NAME \in BucketNames
    /\ GCS_PROJECT_ID \in ProjectIds
    /\ storage_client = None
    /\ bucket = None
    /\ remoteBucket \in BOOLEAN
    /\ objects = {}
    /\ gen = 0
    /\ last = Call("none", "", <<>>, RetBool(FALSE))
    /\ initialized = FALSE
    /\ input = ""

Initialize == \E cf \in BOOLEAN, bf \in BOOLEAN, ef \in BOOLEAN :
    init_gcs_client(cf, bf, ef)

Upload == \E f \in SampleFilenames, r \in RandomSamples, fault \in BOOLEAN :
    upload_hero_image(f, r, fault)

Delete == \E n \in CallerNames, fault \in BOOLEAN :
    delete_hero_image(n, fault)

PublicUrl == \E n \in CallerNames : GetPublicUrl(n)

Next == Initialize \/ Upload \/ Delete \/ PublicUrl

Spec == Init /\ [][Next]_vars

---------------------------------------------------------------------------
(* Name generation over every filename, on an initialised adapter *)

FilenameChars == {".", "/", "P", "n", "g"}

RECURSIVE Strings(_)
\* every string over FilenameChars of length at most n
Strings(n) ==
    IF n = 0 THEN {""}
    ELSE LET shorter == Strings(n - 1)
         IN shorter \cup {s \o c : s \in shorter, c \in FilenameChars}

PatternFilenames ==
    {d \o stem \o e :
        d \in {"", "d.png/"},
        stem \in {"", "a", ".", "a.b"},
        e \in {"", ".", ".jpg", ".JPG", ".jpeg", ".JpEg", ".png", ".webp",
               ".WEBP", ".gif", ".jpgx", ".png."}}

Filenames == Strings(MaxLen) \cup PatternFilenames

InitName ==
    /\ GCS_BUCKET_NAME = "my-bucket"
    /\ GCS_PROJECT_ID = ""
    /\ storage_client = Client(1, client_project)
    /\ bucket = Bucket(storage_client, GCS_BUCKET_NAME)
    /\ remoteBucket = TRUE
    /\ objects = {}
    /\ gen = 1
    /\ last = Call("init", "",
                   <<SdkCall("Client", "ok"), SdkCall("bucket", "ok"),
                     SdkCall("exists", "True")>>,
                   RetBool(TRUE))
    /\ initialized = TRUE
    /\ input \in Filenames

UploadInput == \E r \in RandomSamples, fault \in BOOLEAN :
    upload_hero_image(input, r, fault)

NextName == UploadInput

SpecName == InitName /\ [][NextName]_vars

---------------------------------------------------------------------------
(* Properties *)

NotInitializedTriple == RetTriple(FALSE, "", "")

InitCallsOk ==
    <<SdkCall("Client", "ok"), SdkCall("bucket", "ok"), SdkCall("exists", "True")>>

\* C1: while no init_gcs_client call has returned True, every upload returns
\* (False, "", "") and the provider stores no object.
C1_UploadBeforeInit ==
    ~initialized =>
        /\ objects = {}
        /\ last.op = "upload" => last.ret = NotInitializedTriple

\* C2: while no init_gcs_client call has returned True, every delete returns
\* False.
C2_DeleteBeforeInit ==
    (~initialized /\ last.op = "delete") => last.ret = RetBool(FALSE)

\* C3: with an empty bucket name every init_gcs_client call returns False,
\* makes no SDK call and leaves both handles as they were.
C3_EmptyBucketName ==
    /\ [](GCS_BUCKET_NAME = "" /\ last.op = "init"
            => last.ret = RetBool(FALSE) /\ last.calls = <<>>)
    /\ [][GCS_BUCKET_NAME = "" /\ last'.op = "init"
            => UNCHANGED <<storage_client, bucket>>]_vars

C3_Witness ==
    GCS_BUCKET_NAME = "" /\ last.op = "init" /\ last.ret = RetBool(FALSE)

\* C4: init_gcs_client returns True exactly when the bucket name is not
\* empty, the client and the bucket handle are created without an exception
\* and the existence check returns True; otherwise it returns False.
C4_InitResult ==
    last.op = "init" =>
        /\ last.ret.kind = "bool"
        /\ last.ret.ok <=> (GCS_BUCKET_NAME # "" /\ last.calls = InitCallsOk)

C4_Witness ==
    /\ last.op = "init"
    /\ last.ret = RetBool(TRUE)
    /\ last.calls = InitCallsOk

\* C5: with the bucket handle set, delete makes one provider call and its
\* result follows the provider's answer: deleted -> True, not found -> True,
\* any other error -> False; a delete that follows a successful delete of the
\* same name returns True unless the provider raises another error.
C5_DeleteOutcomes ==
    /\ [](last.op = "delete" /\ truthy(bucket)
            => /\ Len(last.calls) = 1
               /\ last.calls[1].fn = "delete"
               /\ last.calls[1].out \in {"ok", "NotFound", "Error"}
               /\ last.ret = RetBool(last.calls[1].out # "Error"))
    /\ [][(/\ last.op = "delete" /\ last.ret = RetBool(TRUE)
           /\ truthy(bucket)
           /\ last'.op = "delete" /\ last'.arg = last.arg
           /\ last'.calls[1].out # "Error")
            => last'.ret = RetBool(TRUE)]_vars

\* a name that was uploaded, deleted, and is deleted again
C5_Witness ==
    /\ last.op = "delete"
    /\ truthy(bucket)
    /\ last.arg \notin ForeignNames
    /\ last.calls = <<SdkCall("delete", "NotFound")>>
    /\ last.ret = RetBool(TRUE)

\* C6: every call ends by returning a value of its result type; no exception
\* propagates to the caller.
C6_NoExceptionEscapes ==
    /\ last.ret.kind # "raise"
    /\ last.op \in {"init", "delete"} => last.ret.kind = "bool"
    /\ last.op = "upload" => last.ret.kind = "triple"
    /\ last.op = "url" => last.ret.kind = "str"

C6_Witness ==
    /\ last.op = "delete"
    /\ last.calls = <<SdkCall("delete", "Error")>>
    /\ last.ret = RetBool(FALSE)

\* C7: a successful upload returns (True, name, url) with url the public URL
\* of name, "https://storage.googleapis.com/" + bucket name + "/" + name; an
\* unsuccessful upload returns exactly (False, "", "").
C7_UploadResult ==
    last.op = "upload" =>
        IF last.ret.ok
        THEN /\ last.ret.kind = "triple"
             /\ last.ret.name # ""
             /\ last.ret.url = "https://storage.googleapis.com/"
                                 \o GCS_BUCKET_NAME \o "/" \o last.ret.name
             /\ last.ret.url = get_public_url(last.ret.name)
        ELSE last.ret = NotInitializedTriple

C7_Witness ==
    /\ last.op = "upload"
    /\ last.ret.ok
    /\ last.ret.name \in objects
    /\ last.ret.url # ""

\* character c is the lowercase letter d or its uppercase form
SameLetter(c, d) ==
    c = d \/ \E i \in 1..Len(LowerCase) :
                Char(LowerCase, i) = d /\ Char(UpperCase, i) = c

\* filename f ends, whatever the case, with the extension a, after a last
\* path component that has a character other than a dot before it
EndsWithExtension(f, a) ==
    LET k == Len(f) - Len(a)
    IN /\ k >= 1
       /\ \A i \in 1..Len(a) : SameLetter(Char(f, k + i), Char(a, i))
       /\ \E j \in 1..k :
            /\ Char(f, j) \notin {".", "/"}
            /\ \A m \in j..k : Char(f, m) # "/"

\* the extension the naming convention asks for
ExpectedExtension(f) ==
    LET allowed == {".jpg", ".jpeg", ".png", ".webp"}
        kept == {a \in allowed : EndsWithExtension(f, a)}
    IN IF kept = {} THEN ".jpg" ELSE CHOOSE a \in kept : TRUE

\* C8: the object name of a successful upload is "hero_images/", then 32
\* hexadecimal digits, then the filename's extension in lowercase when that
\* is .jpg, .jpeg, .png or .webp, and ".jpg" otherwise.
C8_ObjectName ==
    (last.op = "upload" /\ last.ret.ok) =>
        LET n == last.ret.name
        IN /\ Len(n) > 44
           /\ SubSeq(n, 1, 12) = "hero_images/"
           /\ \A i \in 13..44 :
                \E h \in 1..16 : Char(n, i) = Char("0123456789abcdef", h)
           /\ SubSeq(n, 45, Len(n)) \in {".jpg", ".jpeg", ".png", ".webp"}
           /\ SubSeq(n, 45, Len(n)) = ExpectedExtension(last.arg)

C8_Witness ==
    /\ last.op = "upload"
    /\ last.ret.ok
    /\ last.arg = "n.Png"
    /\ SubSeq(last.ret.name, 45, Len(last.ret.name)) = ".png"

\* C9: get_public_url returns "https://storage.googleapis.com/" + the
\* configured bucket name + "/" + the object name whatever the handles are,
\* makes no SDK call and changes neither the handles nor the provider.
C9_PublicUrl ==
    /\ [](last.op = "url"
            => /\ last.ret = RetStr("https://storage.googleapis.com/"
                                    \o GCS_BUCKET_NAME \o "/" \o last.arg)
               /\ last.calls = <<>>)
    /\ [][last'.op = "url"
            => UNCHANGED <<storage_client, bucket, objects>>]_vars

\* after a failed initialisation, for a name no upload produced
C9_Witness ==
    /\ last.op = "url"
    /\ truthy(bucket)
    /\ ~initialized
    /\ last.arg \in ForeignNames
    /\ last.ret.url = "https://storage.googleapis.com/my-bucket/a b#%?"

\* C10: upload and delete leave both handles unchanged, and a set bucket
\* handle is never unset again.
C10_HandlesFrame ==
    /\ [][last'.op \in {"upload", "delete"}
            => UNCHANGED <<storage_client, bucket>>]_vars
    /\ [][truthy(bucket) => truthy(bucket')]_vars

C10_Witness ==
    /\ truthy(bucket)
    /\ gen = MaxInits
    /\ last.op = "upload"
    /\ last.calls = <<SdkCall("upload_from_string", "Error")>>

====
